---- MODULE Spec2Model ----
(***************************************************************************)
(* Model of the batched forward-decode engine of max:                      *)
(*   - Llama3.__init__           (pipelines/architectures/llama3/llama3.py) *)
(*   - Transformer, TransformerBlock            (nn/transformer/transformer.py) *)
(*   - Qwen2_5VLDecoderTransformer (pipelines/architectures/qwen2_5vl/nn/decoder.py) *)
(* A model object is built from a configuration and then called on ragged   *)
(* batches.  Tensors are sequences of rows; a row is a symbolic term that   *)
(* records which operations produced it, so that "which hidden row did this *)
(* logit row come from" is a fact about the state.  Indices into tensors    *)
(* are 0-based as in the source; row j of tensor t is t[j + 1].             *)
(***************************************************************************)
EXTENDS Integers, Sequences, FiniteSets, TLC

\* ------------------------------------------------------------------ bounds
\* Largest number of token rows in one batch.
MaxTokens == 3
\* Largest number of sequences in one batch.
MaxBatch == 2
\* Largest total number of previously cached tokens in one batch.
MaxCacheLen == 1
\* Largest value of return_n_logits[0].
MaxReturnN == 2
\* config.num_hidden_layers of every configuration.
NumLayers == 2
\* Largest position id handed to freqs_cis_base directly.
MaxPosition == 1
\* Largest number of calls of register_all_models.
MaxRegisterCalls == 3

\* ------------------------------------------------------------- enumerations
\* class ReturnLogits(str, Enum)
\* (VARIABLE is a keyword of TLA+; the members carry the prefix RL_.)
RL_LAST_TOKEN == "last_token"
RL_VARIABLE == "variable"
RL_ALL == "all"
ReturnLogits == {RL_LAST_TOKEN, RL_VARIABLE, RL_ALL}
\* A value that is not a member of ReturnLogits (the constructors take any
\* object for return_logits).
UnknownPolicy == "top_k"

\* KVCacheStrategy members Llama3.__init__ compares against, and one it does not.
CONTINUOUS == "continuous"
PAGED == "paged"
PAGED_FA3_FALLBACK == "paged_fa3_fallback"
KnownStrategies == {CONTINUOUS, PAGED, PAGED_FA3_FALLBACK}
UnknownStrategy == "naive"
\* str(config.kv_params.cache_strategy)
StrategyStr(s) ==
    IF s = CONTINUOUS THEN "KVCacheStrategy.CONTINUOUS"
    ELSE IF s = PAGED THEN "KVCacheStrategy.PAGED"
    ELSE IF s = PAGED_FA3_FALLBACK THEN "KVCacheStrategy.PAGED_FA3_FALLBACK"
    ELSE "KVCacheStrategy.NAIVE"

\* QuantizationEncoding values: None, GPTQ, and one other encoding.
NoEncoding == "none"
GPTQ == "gptq"
Q4_K == "q4_k"

\* ------------------------------------------------------------ basic helpers
RECURSIVE SumSeq(_)
SumSeq(s) == IF s = <<>> THEN 0 ELSE Head(s) + SumSeq(Tail(s))

\* Python's s[1:] and s[:-1].
DropFirst(s) == SubSeq(s, 2, Len(s))
DropLast(s) == SubSeq(s, 1, Len(s) - 1)

\* Optional values: None, and a present value.
None == [present |-> FALSE, val |-> <<>>]
Some(v) == [present |-> TRUE, val |-> v]

\* Result of a step that can raise: a value, or the exception raised.
Ok(v) == [ok |-> TRUE, val |-> v, err |-> ""]
Raise(e) == [ok |-> FALSE, val |-> <<>>, err |-> e]

\* ------------------------------------------------------------------- terms
\* A tensor row: the operation that produced it, two integer attributes and
\* the rows it was computed from.
Term(op, a, b, args) == [op |-> op, a |-> a, b |-> b, args |-> args]

Mul(m, x) == Term("mul", m, 0, <<x>>)
Add(x, y) == Term("add", 0, 0, <<x, y>>)

\* ---------------------------------------------------------- configurations
\* The fields of Llama3Config that Llama3.__init__ reads, and the arguments of
\* Qwen2_5VLDecoderTransformer.__init__ (arch = "qwen2_5vl").  Floats 1.0 and
\* 2.0 are the integers 1 and 2; quantization_config, rms_norm_eps and
\* logits_postprocessor are TRUE when they are not None.
Config(arch, devices, strategy, policy, bias, enc, qcfg, norm, eps, emb, res, post) ==
    [arch |-> arch, devices |-> devices,
     cache_strategy |-> strategy, return_logits |-> policy,
     attention_bias |-> bias, model_quantization_encoding |-> enc,
     quantization_config |-> qcfg, norm_method |-> norm, rms_norm_eps |-> eps,
     num_hidden_layers |-> NumLayers, embedding_multiplier |-> emb,
     residual_multiplier |-> res, logits_postprocessor |-> post]

Policies == ReturnLogits \cup {UnknownPolicy}
\* config.devices: no device, one device, two devices.
OneDevice == <<"d0">>
DeviceLists == {<<>>, OneDevice, <<"d0", "d1">>}
Multipliers == {1, 2}

\* Configurations that exercise the forward call: every policy, hook and
\* multiplier, with the build-time choices at their defaults.
ForwardConfigs ==
    { Config("llama3", OneDevice, PAGED, p, FALSE, NoEncoding, FALSE, "rms_norm", TRUE,
             e, r, post) :
        p \in Policies, e \in Multipliers, r \in Multipliers, post \in BOOLEAN }
    \cup
    { Config("qwen2_5vl", OneDevice, PAGED, p, FALSE, NoEncoding, FALSE, "rms_norm", TRUE,
             e, 1, post) :
        p \in Policies, e \in Multipliers, post \in BOOLEAN }

\* Configurations that exercise Llama3.__init__: every combination of the
\* fields its checks read.
BuildConfigs ==
    { Config("llama3", devs, s, p, bias, enc, qcfg, nm[1], nm[2], 1, 1, FALSE) :
        devs \in DeviceLists, s \in KnownStrategies \cup {UnknownStrategy}, p \in Policies,
        bias \in BOOLEAN, enc \in {NoEncoding, GPTQ, Q4_K}, qcfg \in BOOLEAN,
        nm \in {<<"rms_norm", TRUE>>, <<"rms_norm", FALSE>>,
                <<"layer_norm", FALSE>>} }

\* ------------------------------------------------------- Llama3.__init__
\* Select norm layer class (llama3.py 60-73).
CreateNorm(cfg) ==
    IF cfg.norm_method = "rms_norm"
    THEN IF ~cfg.rms_norm_eps
         THEN Raise("ValueError: rms_norm_eps cannot be None for model that uses RMSNorm.")
         ELSE Ok("RMSNormV2")
    ELSE Ok("ConstantLayerNorm")

\* Select linear layer class (llama3.py 75-82).
LinearCls(cfg) ==
    IF cfg.quantization_config THEN "GPTQLinearV2" ELSE "LinearV2"

\* The attention selection without the GGUF branch's attention_bias check.
AttentionClsNoBiasCheck(cfg) ==
    IF cfg.model_quantization_encoding = GPTQ
    THEN IF ~cfg.quantization_config
         THEN Raise("AssertionError")
         ELSE IF cfg.attention_bias
              THEN Raise("AssertionError: Attention bias is not supported for GPTQAttentionWithRope.")
              ELSE Ok([cls |-> "GPTQAttentionWithRope", has_bias |-> FALSE])
    ELSE IF cfg.model_quantization_encoding # NoEncoding
         THEN Ok([cls |-> "GGUFQAttentionWithRope", has_bias |-> FALSE])
         ELSE Ok([cls |-> "AttentionWithRopeV2", has_bias |-> cfg.attention_bias])

\* Select the attention class (llama3.py 84-111).
AttentionCls(cfg) ==
    IF cfg.model_quantization_encoding = GPTQ
    THEN IF ~cfg.quantization_config
         THEN Raise("AssertionError")
         ELSE IF cfg.attention_bias
              THEN Raise("AssertionError: Attention bias is not supported for GPTQAttentionWithRope.")
              ELSE Ok([cls |-> "GPTQAttentionWithRope", has_bias |-> FALSE])
    ELSE IF cfg.model_quantization_encoding # NoEncoding
         THEN IF cfg.attention_bias
              THEN Raise("AssertionError: Attention bias is not supported for GGUFQAttentionWithRope.")
              ELSE Ok([cls |-> "GGUFQAttentionWithRope", has_bias |-> FALSE])
         ELSE Ok([cls |-> "AttentionWithRopeV2", has_bias |-> cfg.attention_bias])

\* The list of TransformerBlocks (llama3.py 113-139); layer_idx is 0-based.
CreateLayers(cfg, attn) ==
    [i \in 1..cfg.num_hidden_layers |->
        [attention |-> attn.cls, has_bias |-> attn.has_bias, layer_idx |-> i - 1,
         residual_multiplier |-> cfg.residual_multiplier]]

\* Select the cache collection class (llama3.py 165-183).
KVCollectionCls(cfg) ==
    IF cfg.cache_strategy = CONTINUOUS
    THEN Ok("FetchContinuousBatchingKVCacheCollection")
    ELSE IF cfg.cache_strategy = PAGED
    THEN Ok("FetchPagedKVCacheCollection")
    ELSE IF cfg.cache_strategy = PAGED_FA3_FALLBACK
    THEN Ok("FetchPagedKVCacheCollectionFA3Fallback")
    ELSE Raise("ValueError: Unsupported caching strategy "
               \o StrategyStr(cfg.cache_strategy))

\* The attributes Transformer.__init__ sets (transformer.py 113-124); no
\* argument is validated.
TransformerInit(cfg, blocks, kvcls) ==
    [arch |-> "llama3", layers |-> blocks, has_lm_head |-> TRUE,
     kv_collection_constructor |-> kvcls,
     embedding_multiplier |-> cfg.embedding_multiplier,
     logits_postprocessor |-> cfg.logits_postprocessor,
     return_logits |-> cfg.return_logits]

\* The attributes Qwen2_5VLDecoderTransformer.__init__ sets (decoder.py
\* 142-153): there is no lm_head; the layers are the caller's.
QwenInit(cfg, blocks, kvcls) ==
    [arch |-> "qwen2_5vl", layers |-> blocks, has_lm_head |-> FALSE,
     kv_collection_constructor |-> kvcls,
     embedding_multiplier |-> cfg.embedding_multiplier,
     logits_postprocessor |-> cfg.logits_postprocessor,
     return_logits |-> cfg.return_logits]

\* No model object.
NoModel ==
    [arch |-> "", layers |-> <<>>, has_lm_head |-> FALSE,
     kv_collection_constructor |-> "", embedding_multiplier |-> 1,
     logits_postprocessor |-> FALSE, return_logits |-> ""]

\* ------------------------------------------------------------ call inputs
\* Valid input_row_offsets: length b + 1, strictly increasing from 0.
RowOffsets ==
    { ro \in UNION { [1..(b + 1) -> 0..MaxTokens] : b \in 1..MaxBatch } :
        /\ ro[1] = 0
        /\ \A i \in 1..(Len(ro) - 1) : ro[i] < ro[i + 1] }

\* Cache-length vectors, one entry per sequence the cache backend knows of
\* (the caller may pass one whose length differs from the batch's).
CacheLengthVectors ==
    { cl \in UNION { [1..c -> 0..MaxCacheLen] : c \in 1..MaxBatch } :
        SumSeq(cl) <= MaxCacheLen }

\* The token ids of a batch of n rows.
Tokens(n) == [r \in 1..n |-> r % 2]

\* The raw cache inputs (blocks, cache_lengths, lookup_table, max_lengths);
\* the tensors other than cache_lengths are summarised by their sizes.
KVCacheInputs(ro, cl) ==
    << <<Len(cl) + 1>>, cl, [i \in 1..Len(cl) |-> i - 1],
       <<ro[Len(ro)], SumSeq(cl)>> >>

\* ------------------------------------------------------ backend operations
\* ops.rebind(x, shape): x, asserted to have the shape; a mismatch is fatal.
Rebind(x, shape) ==
    IF Len(x) = shape THEN Ok(x) ELSE Raise("rebind: shape mismatch")

\* Elementwise a + b of two vectors, broadcasting a vector of one element.
AddVectors(a, b) ==
    IF Len(a) = Len(b) THEN Ok([i \in 1..Len(a) |-> a[i] + b[i]])
    ELSE IF Len(a) = 1 THEN Ok([i \in 1..Len(b) |-> a[1] + b[i]])
    ELSE IF Len(b) = 1 THEN Ok([i \in 1..Len(a) |-> a[i] + b[1]])
    ELSE Raise("add: shapes cannot be broadcast")

\* Number of elements of range(start, stop, step), step # 0.
RangeLen(start, stop, step) ==
    IF step > 0
    THEN IF stop > start THEN (stop - start + step - 1) \div step ELSE 0
    ELSE IF start > stop THEN (start - stop - step - 1) \div (0 - step) ELSE 0

\* ops.range(start, stop, step); a zero step is fatal.
Range(start, stop, step) ==
    IF step = 0 THEN Raise("range: step must be non-zero")
    ELSE Ok([i \in 1..RangeLen(start, stop, step) |-> start + (i - 1) * step])

\* Whether every index of idx addresses a row of t.
InBounds(t, idx) == \A i \in 1..Len(idx) : 0 <= idx[i] /\ idx[i] < Len(t)

\* ops.gather(t, idx, axis=0): row idx[i] of t for each i; the content of a
\* row gathered from outside t is unspecified.
Gather(t, idx) ==
    [i \in 1..Len(idx) |->
        IF 0 <= idx[i] /\ idx[i] < Len(t)
        THEN t[idx[i] + 1]
        ELSE Term("unspecified", idx[i], 0, <<>>)]

\* The outcomes of gathers: with an index out of bounds the backend may abort
\* the call or deliver unspecified rows.
GatherAborts(inbounds) == IF inbounds THEN {FALSE} ELSE BOOLEAN

\* The truth values `if logits:` can see: None is false; what a tensor value
\* is taken for is up to the tensor type.
Truthiness(x) == IF x.present THEN BOOLEAN ELSE {FALSE}

\* -------------------------------------------------- Transformer.__call__
\* h = self.embed_tokens(tokens) (transformer.py 140); the Qwen decoder takes
\* the embeddings as its input (decoder.py 193).
InputHidden(m, tokens) ==
    [r \in 1..Len(tokens) |->
        Term(IF m.arch = "llama3" THEN "embed_tokens" ELSE "inputs_embeds",
             tokens[r], 0, <<>>)]

\* transformer.py 142-145, decoder.py 194-195.
ScaleEmbedding(m, x) ==
    IF m.embedding_multiplier # 1
    THEN [r \in 1..Len(x) |-> Mul(m.embedding_multiplier, x[r])]
    ELSE x

\* kv_collection = self.kv_collection_constructor(*kv_cache_inputs).
KVCollection(m, kv_cache_inputs) ==
    [constructor |-> m.kv_collection_constructor, inputs |-> kv_cache_inputs]

\* cache_lengths read from the wrong element of the raw cache inputs.
CacheLengthsFirstElement(kv_cache_inputs) == kv_cache_inputs[1]

\* cache_lengths = kv_cache_inputs[1] (0-based).
CacheLengths(kv_cache_inputs) == kv_cache_inputs[2]

\* input_row_offsets[1:] - input_row_offsets[:-1]
RowDiffs(ro) ==
    [i \in 1..(Len(ro) - 1) |-> DropFirst(ro)[i] - DropLast(ro)[i]]

\* The prompt lengths without the rebind to the cache-length shape.
PromptLengthsNoRebind(ro, cache_lengths) == Ok(RowDiffs(ro))

\* prompt_lengths (transformer.py 151-154).
PromptLengths(ro, cache_lengths) == Rebind(RowDiffs(ro), Len(cache_lengths))

\* context_lengths = prompt_lengths + cache_lengths (transformer.py 156).
ContextLengths(prompt_lengths, cache_lengths) ==
    AddVectors(prompt_lengths, cache_lengths)

\* The block with post_attention_layernorm applied to the block's input x
\* instead of the post-attention sum h.
TransformerBlockRowNormX(blk, x, r) ==
    LET attn_out == Term("self_attn", blk.layer_idx, r,
                         <<Term("input_layernorm", blk.layer_idx, 0, <<x>>)>>)
        attn == IF blk.residual_multiplier # 1
                THEN Mul(blk.residual_multiplier, attn_out) ELSE attn_out
        hh == Add(x, attn)
        mlp_out == Term("mlp", blk.layer_idx, 0,
                        <<Term("post_attention_layernorm", blk.layer_idx, 0, <<x>>)>>)
        mlp == IF blk.residual_multiplier # 1
               THEN Mul(blk.residual_multiplier, mlp_out) ELSE mlp_out
    IN Add(hh, mlp)

\* TransformerBlock.__call__ on row r of x (transformer.py 65-82).
TransformerBlockRow(blk, x, r) ==
    LET attn_out == Term("self_attn", blk.layer_idx, r,
                         <<Term("input_layernorm", blk.layer_idx, 0, <<x>>)>>)
        attn == IF blk.residual_multiplier # 1
                THEN Mul(blk.residual_multiplier, attn_out) ELSE attn_out
        hh == Add(x, attn)
        mlp_out == Term("mlp", blk.layer_idx, 0,
                        <<Term("post_attention_layernorm", blk.layer_idx, 0, <<hh>>)>>)
        mlp == IF blk.residual_multiplier # 1
               THEN Mul(blk.residual_multiplier, mlp_out) ELSE mlp_out
    IN Add(hh, mlp)

\* One layer of the stack applied to the hidden state (transformer.py
\* 160-164); the Qwen decoder's layers are the caller's callables (decoder.py
\* 210-216).
ApplyLayer(m, blk, x) ==
    [r \in 1..Len(x) |->
        IF m.arch = "llama3" THEN TransformerBlockRow(blk, x[r], r - 1)
        ELSE Term("layer", blk.layer_idx, r - 1, <<x[r]>>)]

\* The first row of every sequence instead of the last.
FirstIndices(ro) == [i \in 1..(Len(ro) - 1) |-> DropLast(ro)[i]]

\* input_row_offsets[1:] - 1 (transformer.py 167).
LastIndices(ro) == [i \in 1..(Len(ro) - 1) |-> DropFirst(ro)[i] - 1]

\* cast(lm_head(norm(x)), float32) of one row (transformer.py 168, 184-186,
\* 194); the Qwen decoder has no lm_head (decoder.py 220, 236, 244).
LogitsRow(m, x) ==
    LET normed == Term("norm", 0, 0, <<x>>)
    IN Term("cast_float32", 0, 0,
            <<IF m.has_lm_head THEN Term("lm_head", 0, 0, <<normed>>) ELSE normed>>)

LogitsRows(m, t) == [r \in 1..Len(t) |-> LogitsRow(m, t[r])]

\* The flattened indices with every group in descending order (the range
\* subtracted the wrong way round).
FlatIndicesDescending(ro, rng) ==
    [j \in 1..((Len(ro) - 1) * Len(rng)) |->
        DropFirst(ro)[((j - 1) \div Len(rng)) + 1]
            - (Len(rng) + 1 - rng[((j - 1) % Len(rng)) + 1])]

\* reshape(unsqueeze(input_row_offsets[1:], -1) - return_n_logits_range,
\* (-1,)): row-major, one group of Len(rng) indices per sequence
\* (transformer.py 179-182).
FlatIndices(ro, rng) ==
    [j \in 1..((Len(ro) - 1) * Len(rng)) |->
        DropFirst(ro)[((j - 1) \div Len(rng)) + 1] - rng[((j - 1) % Len(rng)) + 1]]

\* The offsets range stopped at the number of gathered rows.
LogitOffsetsShort(n, k) == Range(0, n, k)

\* ops.range(0, last_indices.shape[0] + return_n_logits[0],
\* return_n_logits[0]) (transformer.py 187-192).
LogitOffsets(n, k) == Range(0, n + k, k)

\* The VARIABLE branch (transformer.py 172-192).
VariableBranch(m, x, ro, k) ==
    LET return_n_logits_range == Range(k, 0, 0 - 1)
        last_indices == FlatIndices(ro, return_n_logits_range.val)
        last_tokens == Gather(x, last_indices)
        offs == LogitOffsets(Len(last_indices), k)
    IN [ok |-> offs.ok, err |-> offs.err,
        inbounds |-> InBounds(x, last_indices),
        last_indices |-> last_indices,
        logits |-> Some(LogitsRows(m, last_tokens)),
        offsets |-> Some(offs.val)]

\* The ALL branch returning the sequence ends instead of the row offsets.
AllBranchEnds(m, x, ro) ==
    [ok |-> TRUE, err |-> "", inbounds |-> TRUE, last_indices |-> <<>>,
     logits |-> Some(LogitsRows(m, x)), offsets |-> Some(DropFirst(ro))]

\* The ALL branch (transformer.py 193-195).
AllBranch(m, x, ro) ==
    [ok |-> TRUE, err |-> "", inbounds |-> TRUE, last_indices |-> <<>>,
     logits |-> Some(LogitsRows(m, x)), offsets |-> Some(ro)]

\* Neither branch: logits and offsets stay None (transformer.py 169-170).
NoBranch ==
    [ok |-> TRUE, err |-> "", inbounds |-> TRUE, last_indices |-> <<>>,
     logits |-> None, offsets |-> None]

\* The branch on self.return_logits with the ALL branch leaving offsets None.
SelectBranchAllNoOffsets(m, x, ro, k) ==
    IF m.return_logits = RL_VARIABLE THEN VariableBranch(m, x, ro, k)
    ELSE IF m.return_logits = RL_ALL
    THEN [AllBranch(m, x, ro) EXCEPT !.offsets = None]
    ELSE NoBranch

\* The branch on self.return_logits (transformer.py 172-195).
SelectBranch(m, x, ro, k) ==
    IF m.return_logits = RL_VARIABLE THEN VariableBranch(m, x, ro, k)
    ELSE IF m.return_logits = RL_ALL THEN AllBranch(m, x, ro)
    ELSE NoBranch

\* Transformer._apply_logits_postprocessor (transformer.py 126-131): the hook
\* applied to each tensor of the tuple.
ApplyLogitsPostprocessor(m, output) ==
    IF ~m.logits_postprocessor THEN output
    ELSE [e \in 1..Len(output) |->
            [r \in 1..Len(output[e]) |->
                Term("logits_postprocessor", 0, 0, <<output[e][r]>>)]]

\* The tensors the hook is called with by _apply_logits_postprocessor.
HookCalls(m, output) == IF ~m.logits_postprocessor THEN <<>> ELSE output

\* transformer.py 197-205: `if logits:` decides which tensors are
\* post-processed; truthy is what the test evaluated to.
Postprocessed(m, ll, lg, truthy) ==
    IF truthy
    THEN LET out == ApplyLogitsPostprocessor(m, <<ll, lg.val>>)
         IN [last_logits |-> out[1], logits |-> Some(out[2]),
             calls |-> HookCalls(m, <<ll, lg.val>>)]
    ELSE [last_logits |-> ApplyLogitsPostprocessor(m, <<ll>>)[1], logits |-> lg,
          calls |-> HookCalls(m, <<ll>>)]

\* transformer.py 207-211.
ReturnTuple(ll, lg, offs) ==
    IF offs.present
    THEN IF lg.present THEN Ok(<<ll, lg.val, offs.val>>)
         ELSE Raise("AssertionError")
    ELSE Ok(<<ll>>)

\* ------------------------------------------- Qwen2_5VLRotaryEmbedding
\* The instance after construction (decoder.py 39-48): the dataclass fields,
\* inv_freq being the declared field _inv_freq; inv_freqs_attr is the
\* attribute _inv_freqs and cache the entry of the instance dictionary that
\* cached_property fills.  computed counts the runs of _compute_inv_freqs,
\* called tells whether freqs_cis_base has run, read whether the property
\* inv_freqs has been read from outside freqs_cis_base, used is the inverse
\* frequencies the latest run of freqs_cis_base read.
NewRotary(rc) ==
    [dim |-> rc.dim, n_heads |-> rc.n_heads, theta |-> rc.theta,
     inv_freq |-> None, inv_freqs_attr |-> None, cache |-> None,
     computed |-> 0, called |-> FALSE, read |-> FALSE, used |-> <<>>]

\* The constructor arguments of the instances explored.
RotaryConfigs ==
    {[dim |-> d, n_heads |-> nh, theta |-> th] :
        d \in {4, 6, 8}, nh \in {1, 2}, th \in {10000, 1000000}}

\* The instance given to the decoder.
DecoderRotary == [dim |-> 4, n_heads |-> 2, theta |-> 10000]

\* _compute_inv_freqs (decoder.py 50-60): element i is 1/theta^(iota[i]/n),
\* kept as the triple (theta, iota[i], n).
ComputeInvFreqs(rot) ==
    LET n == rot.dim \div rot.n_heads
        iota == Range(0, n - 1, 2).val
    IN [i \in 1..Len(iota) |-> [theta |-> rot.theta, num |-> iota[i], den |-> n]]

\* The property read as a plain property: computed on every read.
InvFreqsUncached(rot) ==
    LET v == ComputeInvFreqs(rot)
    IN [value |-> v,
        rot |-> [rot EXCEPT !.inv_freqs_attr = Some(v), !.computed = @ + 1]]

\* The cached property inv_freqs (decoder.py 97-100): the first read runs
\* the body and stores its value in the instance dictionary, later reads
\* take it from there.
InvFreqs(rot) ==
    IF rot.cache.present
    THEN [value |-> rot.cache.val, rot |-> rot]
    ELSE LET v == ComputeInvFreqs(rot)
         IN [value |-> v,
             rot |-> [rot EXCEPT !.inv_freqs_attr = Some(v), !.cache = Some(v),
                                 !.computed = @ + 1]]

\* decoder.py 77-95 on inverse frequencies inv and pos_ids of shape
\* [3, batch_size, seq_len]: freqs[a][b][s][i] = inv[i] * pos_ids[a][b][s],
\* emb = concat((freqs, freqs), -1), and the cosines and sines of emb.
Emb(inv, pos_ids) ==
    [a \in 1..3 |->
        [b \in 1..Len(pos_ids[a]) |->
            [s \in 1..Len(pos_ids[a][b]) |->
                [i \in 1..(2 * Len(inv)) |->
                    [inv |-> inv[((i - 1) % Len(inv)) + 1],
                     pos |-> pos_ids[a][b][s]]]]]]
CosSin(inv, pos_ids) ==
    [cos |-> [a \in 1..3 |-> [b \in 1..Len(pos_ids[a]) |->
                [s \in 1..Len(pos_ids[a][b]) |->
                    [i \in 1..(2 * Len(inv)) |->
                        [fn |-> "cos", of |-> Emb(inv, pos_ids)[a][b][s][i]]]]]],
     sin |-> [a \in 1..3 |-> [b \in 1..Len(pos_ids[a]) |->
                [s \in 1..Len(pos_ids[a][b]) |->
                    [i \in 1..(2 * Len(inv)) |->
                        [fn |-> "sin", of |-> Emb(inv, pos_ids)[a][b][s][i]]]]]]]

\* freqs_cis_base(pos_ids) (decoder.py 62-95): the returned pair and the
\* instance after the call.
FreqsCisBaseOf(rot, pos_ids) ==
    LET read == InvFreqs(rot)
    IN [out |-> CosSin(read.value, pos_ids),
        rot |-> [read.rot EXCEPT !.called = TRUE, !.used = read.value]]

\* Position ids of shape [3, 1, 1] (one sequence, one token).
PositionIds == [1..3 -> [1..1 -> [1..1 -> 0..MaxPosition]]]

\* The position ids of n text tokens: 0..n-1 on each of the three axes.
TextPositionIds(n) == [a \in 1..3 |-> <<[s \in 1..n |-> s - 1]>>]

\* --------------------------------------------------- register_all_models
\* architectures (architectures/__init__.py 40-54), in list order.
Architectures ==
    <<"exaone_arch", "gemma3_arch", "llama_arch", "llama4_arch",
      "llama_vision_arch", "mistral_arch", "mpnet_arch", "olmo_arch",
      "phi3_arch", "pixtral_arch", "qwen2_arch", "replit_arch",
      "granite_arch">>

ArchitectureSet == {Architectures[i] : i \in 1..Len(Architectures)}

\* The threads of the process that call register_all_models; the function
\* takes no lock (__init__.py 19-59).
Callers == {"A", "B"}

\* ------------------------------------------------------------------- state
VARIABLES
    config,           \* the configuration the model is built from
    bpc,              \* construction: "start", "layers", "kv", "super", "built", "failed"
    berr,             \* the exception construction raised, or ""
    build,            \* the locals of Llama3.__init__
    model,            \* the attributes of the model object (self)
    rotary,           \* the Qwen2_5VLRotaryEmbedding instance of the model
    position_embeddings, \* what freqs_cis_base returned last, or None
    models_already_registered, \* _MODELS_ALREADY_REGISTERED
    registered,       \* times PIPELINE_REGISTRY.register was called, per architecture
    reg,              \* register_all_models: calls made, and per caller "idle" or "loop" and its loop index
    pc,               \* forward call: "idle", "prepare", "layers", "extract", "post", "returned", "failed"
    inputs,           \* the arguments of the call in progress
    h,                \* the hidden state
    kv_collection,    \* the cache collection of the call
    kv_built,         \* times the cache collection constructor ran in the call
    context_lengths,  \* kwargs["context_lengths"]
    layer_calls,      \* the layer invocations of the call, in order
    last_indices,     \* the flattened gather indices of the VARIABLE branch
    last_logits,      \* last_logits
    logits,           \* logits, or None
    offsets,          \* offsets, or None
    post_calls,       \* the tensors the logits_postprocessor was called with
    result,           \* the returned tuple
    err               \* the exception the call raised, or ""

buildVars == <<config, bpc, berr, build, model>>
callVars == <<pc, inputs, h, kv_collection, kv_built, context_lengths,
              layer_calls, last_indices, last_logits, logits, offsets,
              post_calls, result, err, position_embeddings>>
registryVars == <<models_already_registered, registered, reg>>
vars == <<config, bpc, berr, build, model, rotary, pc, inputs, h,
          kv_collection, kv_built, context_lengths, layer_calls, last_indices,
          last_logits, logits, offsets, post_calls, result, err,
          position_embeddings, models_already_registered, registered, reg>>

NoBuild ==
    [rope |-> FALSE, create_norm |-> "", linear_cls |-> "",
     attention_cls |-> [cls |-> "", has_bias |-> FALSE], layers |-> <<>>,
     lm_head |-> FALSE, kv_collection_cls |-> ""]

NoInputs ==
    [tokens |-> <<>>, kv_cache_inputs |-> <<>>, return_n_logits |-> <<>>,
     input_row_offsets |-> <<>>]

\* No call in progress.
CallIdle ==
    /\ pc = "idle"
    /\ inputs = NoInputs
    /\ h = <<>>
    /\ kv_collection = None
    /\ kv_built = 0
    /\ context_lengths = None
    /\ layer_calls = <<>>
    /\ last_indices = <<>>
    /\ last_logits = <<>>
    /\ logits = None
    /\ offsets = None
    /\ post_calls = <<>>
    /\ result = <<>>
    /\ err = ""
    /\ position_embeddings = None

\* Nothing registered: the module has been imported (__init__.py 16) and
\* register_all_models has not been called.
NotRegistered ==
    /\ models_already_registered = FALSE
    /\ registered = [a \in ArchitectureSet |-> 0]
    /\ reg = [calls |-> 0, at |-> [c \in Callers |-> [pc |-> "idle", i |-> 0]]]

InitWith(configs, rotaries) ==
    /\ config \in configs
    /\ bpc = "start"
    /\ berr = ""
    /\ build = NoBuild
    /\ model = NoModel
    /\ rotary \in {NewRotary(rc) : rc \in rotaries}
    /\ CallIdle
    /\ NotRegistered

Init == InitWith(ForwardConfigs, {DecoderRotary})
InitBuild == InitWith(BuildConfigs, {DecoderRotary})
\* The architectures module just imported.
InitRegister ==
    InitWith({Config("llama3", OneDevice, PAGED, RL_LAST_TOKEN, FALSE, NoEncoding,
                     FALSE, "rms_norm", TRUE, 1, 1, FALSE)},
             {DecoderRotary})
\* A rotary embedding instance of any of the explored shapes, before any
\* model is built.
InitRotary ==
    InitWith({Config("qwen2_5vl", OneDevice, PAGED, RL_LAST_TOKEN, FALSE, NoEncoding,
                     FALSE, "rms_norm", TRUE, 1, 1, FALSE)},
             RotaryConfigs)

\* ----------------------------------------------------------- construction
\* Llama3.__init__, llama3.py 49-111: the rope, then the norm, linear and
\* attention classes; a ValueError or a failed assert ends construction.
SelectClasses ==
    /\ bpc = "start"
    /\ config.arch = "llama3"
    /\ LET norm == CreateNorm(config)
           attn == AttentionCls(config)
       IN IF Len(config.devices) # 1
          THEN /\ bpc' = "failed"
               /\ berr' = "AssertionError"
               /\ build' = build
          ELSE IF ~norm.ok
          THEN /\ bpc' = "failed"
               /\ berr' = norm.err
               /\ build' = [build EXCEPT !.rope = TRUE]
          ELSE IF ~attn.ok
          THEN /\ bpc' = "failed"
               /\ berr' = attn.err
               /\ build' = [build EXCEPT !.rope = TRUE, !.create_norm = norm.val,
                                         !.linear_cls = LinearCls(config)]
          ELSE /\ bpc' = "layers"
               /\ berr' = ""
               /\ build' = [build EXCEPT !.rope = TRUE, !.create_norm = norm.val,
                                         !.linear_cls = LinearCls(config),
                                         !.attention_cls = attn.val]
    /\ UNCHANGED <<config, model, rotary>>
    /\ UNCHANGED callVars
    /\ UNCHANGED registryVars

\* llama3.py 113-163: the TransformerBlocks, the embedding and the output layer.
BuildLayers ==
    /\ bpc = "layers"
    /\ build' = [build EXCEPT !.layers = CreateLayers(config, build.attention_cls),
                              !.lm_head = TRUE]
    /\ bpc' = "kv"
    /\ UNCHANGED <<config, berr, model, rotary>>
    /\ UNCHANGED callVars
    /\ UNCHANGED registryVars

\* llama3.py 165-183: the cache collection class, or ValueError.
SelectKVCollection ==
    /\ bpc = "kv"
    /\ LET cls == KVCollectionCls(config)
       IN IF cls.ok
          THEN /\ bpc' = "super"
               /\ berr' = ""
               /\ build' = [build EXCEPT !.kv_collection_cls = cls.val]
          ELSE /\ bpc' = "failed"
               /\ berr' = cls.err
               /\ build' = build
    /\ UNCHANGED <<config, model, rotary>>
    /\ UNCHANGED callVars
    /\ UNCHANGED registryVars

\* llama3.py 185-199: super().__init__(...).
SuperInit ==
    /\ bpc = "super"
    /\ model' = TransformerInit(config, build.layers, build.kv_collection_cls)
    /\ bpc' = "built"
    /\ UNCHANGED <<config, berr, build, rotary>>
    /\ UNCHANGED callVars
    /\ UNCHANGED registryVars

\* Qwen2_5VLDecoderTransformer.__init__ (decoder.py 123-153), called with
\* layers and a cache collection constructor the caller made.
QwenConstruct ==
    /\ bpc = "start"
    /\ config.arch = "qwen2_5vl"
    /\ model' = QwenInit(config,
                         CreateLayers(config, [cls |-> "caller", has_bias |-> FALSE]),
                         "FetchPagedKVCacheCollection")
    /\ bpc' = "built"
    /\ UNCHANGED <<config, berr, build, rotary>>
    /\ UNCHANGED callVars
    /\ UNCHANGED registryVars

\* ------------------------------------------------------------ forward call
\* The call raised: nothing is returned.
Abort(e) ==
    /\ pc' = "failed"
    /\ err' = e
    /\ result' = <<>>

\* __call__ entered with a batch: transformer.py 140-145; decoder.py 192-195,
\* where freqs_cis_base first reads the cached property inv_freqs.
Call(ro, cl, k) ==
    /\ bpc = "built"
    /\ pc = "idle"
    /\ inputs' = [tokens |-> Tokens(ro[Len(ro)]),
                  kv_cache_inputs |-> KVCacheInputs(ro, cl),
                  return_n_logits |-> <<k>>,
                  input_row_offsets |-> ro]
    /\ h' = ScaleEmbedding(model, InputHidden(model, Tokens(ro[Len(ro)])))
    /\ IF model.arch = "qwen2_5vl"
       THEN LET ret == FreqsCisBaseOf(rotary, TextPositionIds(ro[Len(ro)]))
            IN /\ rotary' = ret.rot
               /\ position_embeddings' = Some(ret.out)
       ELSE UNCHANGED <<rotary, position_embeddings>>
    /\ pc' = "prepare"
    /\ UNCHANGED buildVars
    /\ UNCHANGED registryVars
    /\ UNCHANGED <<kv_collection, kv_built, context_lengths, layer_calls,
                   last_indices, last_logits, logits, offsets, post_calls,
                   result, err>>

\* transformer.py 147-157: the cache collection, then the context lengths.
Prepare ==
    /\ pc = "prepare"
    /\ kv_collection' = Some(KVCollection(model, inputs.kv_cache_inputs))
    /\ kv_built' = kv_built + 1
    /\ LET cache_lengths == CacheLengths(inputs.kv_cache_inputs)
           prompt_lengths == PromptLengths(inputs.input_row_offsets, cache_lengths)
           ctx == ContextLengths(prompt_lengths.val, cache_lengths)
       IN IF ~prompt_lengths.ok
          THEN Abort(prompt_lengths.err) /\ context_lengths' = None
          ELSE IF ~ctx.ok
          THEN Abort(ctx.err) /\ context_lengths' = None
          ELSE /\ context_lengths' = Some(ctx.val)
               /\ pc' = IF Len(model.layers) = 0 THEN "extract" ELSE "layers"
               /\ UNCHANGED <<result, err>>
    /\ UNCHANGED buildVars
    /\ UNCHANGED registryVars
    /\ UNCHANGED <<rotary, position_embeddings, inputs, h, layer_calls, last_indices, last_logits,
                   logits, offsets, post_calls>>

\* The layer loop walking the stack from its last layer to its first.
RunLayerReversed ==
    /\ pc = "layers"
    /\ Len(layer_calls) < Len(model.layers)
    /\ LET j == Len(model.layers) - Len(layer_calls)
       IN /\ h' = ApplyLayer(model, model.layers[j], h)
          /\ layer_calls' = Append(layer_calls,
                                   [layer_idx |-> model.layers[j].layer_idx,
                                    kv_collection |-> kv_collection.val,
                                    context_lengths |-> context_lengths.val])
          /\ pc' = IF Len(layer_calls) + 1 = Len(model.layers)
                   THEN "extract" ELSE "layers"
    /\ UNCHANGED buildVars
    /\ UNCHANGED registryVars
    /\ UNCHANGED <<rotary, position_embeddings, inputs, kv_collection, kv_built, context_lengths,
                   last_indices, last_logits, logits, offsets, post_calls,
                   result, err>>

\* transformer.py 159-164: the next layer of the stack.
RunLayer ==
    /\ pc = "layers"
    /\ Len(layer_calls) < Len(model.layers)
    /\ LET j == Len(layer_calls) + 1
       IN /\ h' = ApplyLayer(model, model.layers[j], h)
          /\ layer_calls' = Append(layer_calls,
                                   [layer_idx |-> model.layers[j].layer_idx,
                                    kv_collection |-> kv_collection.val,
                                    context_lengths |-> context_lengths.val])
          /\ pc' = IF j = Len(model.layers) THEN "extract" ELSE "layers"
    /\ UNCHANGED buildVars
    /\ UNCHANGED registryVars
    /\ UNCHANGED <<rotary, position_embeddings, inputs, kv_collection, kv_built, context_lengths,
                   last_indices, last_logits, logits, offsets, post_calls,
                   result, err>>

\* transformer.py 166-195: last_logits and the policy's logits and offsets.
ExtractLogits ==
    /\ pc = "extract"
    /\ LET ro == inputs.input_row_offsets
           last_h == Gather(h, LastIndices(ro))
           br == SelectBranch(model, h, ro, inputs.return_n_logits[1])
       IN \E aborts \in GatherAborts(InBounds(h, LastIndices(ro)) /\ br.inbounds) :
            IF aborts \/ ~br.ok
            THEN /\ Abort(IF aborts THEN "gather: index out of bounds" ELSE br.err)
                 /\ UNCHANGED <<last_indices, last_logits, logits, offsets>>
            ELSE /\ last_logits' = LogitsRows(model, last_h)
                 /\ last_indices' = br.last_indices
                 /\ logits' = br.logits
                 /\ offsets' = br.offsets
                 /\ pc' = "post"
                 /\ UNCHANGED <<result, err>>
    /\ UNCHANGED buildVars
    /\ UNCHANGED registryVars
    /\ UNCHANGED <<rotary, position_embeddings, inputs, h, kv_collection, kv_built, context_lengths,
                   layer_calls, post_calls>>

\* transformer.py 197-211: the postprocessor hook, then the returned tuple.
Finish ==
    /\ pc = "post"
    /\ \E truthy \in Truthiness(logits) :
         LET pp == Postprocessed(model, last_logits, logits, truthy)
             rt == ReturnTuple(pp.last_logits, pp.logits, offsets)
         IN /\ last_logits' = pp.last_logits
            /\ logits' = pp.logits
            /\ post_calls' = pp.calls
            /\ IF rt.ok
               THEN /\ result' = rt.val
                    /\ pc' = "returned"
                    /\ err' = ""
               ELSE Abort(rt.err)
    /\ UNCHANGED buildVars
    /\ UNCHANGED registryVars
    /\ UNCHANGED <<rotary, position_embeddings, inputs, h, kv_collection, kv_built, context_lengths,
                   layer_calls, last_indices, offsets>>

\* The call is over (returned or raised); the model holds nothing of it.
EndCall ==
    /\ pc \in {"returned", "failed"}
    /\ pc' = "idle"
    /\ inputs' = NoInputs
    /\ h' = <<>>
    /\ kv_collection' = None
    /\ kv_built' = 0
    /\ context_lengths' = None
    /\ layer_calls' = <<>>
    /\ last_indices' = <<>>
    /\ last_logits' = <<>>
    /\ logits' = None
    /\ offsets' = None
    /\ post_calls' = <<>>
    /\ result' = <<>>
    /\ err' = ""
    /\ position_embeddings' = None
    /\ UNCHANGED buildVars
    /\ UNCHANGED registryVars
    /\ UNCHANGED rotary

\* ------------------------------------------------- freqs_cis_base alone
\* freqs_cis_base(pos_ids) called on the instance outside a forward call
\* (decoder.py 62-95).
FreqsCisBase(pos_ids) ==
    /\ pc = "idle"
    /\ LET ret == FreqsCisBaseOf(rotary, pos_ids)
       IN /\ rotary' = ret.rot
          /\ position_embeddings' = Some(ret.out)
    /\ UNCHANGED buildVars
    /\ UNCHANGED registryVars
    /\ UNCHANGED <<pc, inputs, h, kv_collection, kv_built, context_lengths,
                   layer_calls, last_indices, last_logits, logits, offsets,
                   post_calls, result, err>>

\* The property inv_freqs read on the instance from outside freqs_cis_base
\* (decoder.py 97-100).
ReadInvFreqs ==
    /\ pc = "idle"
    /\ rotary' = [InvFreqs(rotary).rot EXCEPT !.read = TRUE]
    /\ UNCHANGED buildVars
    /\ UNCHANGED registryVars
    /\ UNCHANGED callVars

\* --------------------------------------------------- register_all_models
\* Caller c enters register_all_models() (__init__.py 19-54): it returns at
\* once when the flag is set, and otherwise imports the architectures and
\* builds the list.  Nothing keeps a caller out while another is inside.
RegisterAllModels(c) ==
    /\ reg.at[c].pc = "idle"
    /\ reg.calls < MaxRegisterCalls
    /\ reg' = IF models_already_registered
              THEN [reg EXCEPT !.calls = @ + 1]
              ELSE [reg EXCEPT !.calls = @ + 1,
                               !.at[c] = [pc |-> "loop", i |-> 0]]
    /\ UNCHANGED <<models_already_registered, registered>>
    /\ UNCHANGED buildVars
    /\ UNCHANGED callVars
    /\ UNCHANGED rotary

\* __init__.py 56-57: PIPELINE_REGISTRY.register(arch) for the next arch of
\* caller c's loop.
RegisterArch(c) ==
    /\ reg.at[c].pc = "loop"
    /\ reg.at[c].i < Len(Architectures)
    /\ registered' = [registered EXCEPT ![Architectures[reg.at[c].i + 1]] = @ + 1]
    /\ reg' = [reg EXCEPT !.at[c].i = @ + 1]
    /\ UNCHANGED models_already_registered
    /\ UNCHANGED buildVars
    /\ UNCHANGED callVars
    /\ UNCHANGED rotary

\* __init__.py 59: _MODELS_ALREADY_REGISTERED = True, and caller c's call
\* returns.
SetRegistered(c) ==
    /\ reg.at[c].pc = "loop"
    /\ reg.at[c].i = Len(Architectures)
    /\ models_already_registered' = TRUE
    /\ reg' = [reg EXCEPT !.at[c] = [pc |-> "idle", i |-> 0]]
    /\ UNCHANGED registered
    /\ UNCHANGED buildVars
    /\ UNCHANGED callVars
    /\ UNCHANGED rotary

\* -------------------------------------------------------- specifications
Next ==
    \/ SelectClasses
    \/ BuildLayers
    \/ SelectKVCollection
    \/ SuperInit
    \/ QwenConstruct
    \/ \E ro \in RowOffsets, cl \in CacheLengthVectors, k \in 0..MaxReturnN :
         Call(ro, cl, k)
    \/ Prepare
    \/ RunLayer
    \/ ExtractLogits
    \/ Finish
    \/ EndCall

Spec == Init /\ [][Next]_vars

\* Construction from every configuration, each built model called on one
\* batch of one sequence.
NextBuild ==
    \/ SelectClasses
    \/ BuildLayers
    \/ SelectKVCollection
    \/ SuperInit
    \/ \E ro \in {s \in RowOffsets : Len(s) = 2}, k \in {1} :
         Call(ro, <<0>>, k)
    \/ Prepare
    \/ RunLayer
    \/ ExtractLogits
    \/ Finish
    \/ EndCall

SpecBuild == InitBuild /\ [][NextBuild]_vars

\* One rotary embedding instance: calls of freqs_cis_base and reads of its
\* property inv_freqs.
NextRotary ==
    \/ \E pos_ids \in PositionIds : FreqsCisBase(pos_ids)
    \/ ReadInvFreqs

SpecRotary == InitRotary /\ [][NextRotary]_vars

\* The architectures module: calls of register_all_models by the callers.
NextRegister ==
    \/ \E c \in Callers : RegisterAllModels(c)
    \/ \E c \in Callers : RegisterArch(c)
    \/ \E c \in Callers : SetRegistered(c)

SpecRegister == InitRegister /\ [][NextRegister]_vars

\* ------------------------------------------------------------------ claims
\* The batch of the call in progress.
RO == inputs.input_row_offsets
BatchSize == Len(inputs.input_row_offsets) - 1
ReturnN == inputs.return_n_logits[1]
TotalTokens == inputs.input_row_offsets[Len(inputs.input_row_offsets)]

\* A row the postprocessor hook produced, and the row it was applied to.
Hooked(row) == row.op = "logits_postprocessor"
Unhooked(row) == IF Hooked(row) THEN row.args[1] ELSE row

\* A hidden row run through the final norm and the output head and upcast
\* (Transformer); the Qwen decoder has no output head.
NormHead(x) ==
    Term("cast_float32", 0, 0, <<Term("lm_head", 0, 0, <<Term("norm", 0, 0, <<x>>)>>)>>)
NormOnly(x) == Term("cast_float32", 0, 0, <<Term("norm", 0, 0, <<x>>)>>)
ExpectedLogits(x) == IF model.arch = "llama3" THEN NormHead(x) ELSE NormOnly(x)

\* C1: under LAST_TOKEN the call returns a 1-element tuple whose tensor has
\* one row per sequence, row i being the hidden row at index
\* row_offsets[i+1]-1 run through the final norm and the output head (the
\* norm alone in the Qwen decoder); neither logits nor offsets is produced.
C1_LastTokenRows ==
    (pc = "returned" /\ model.return_logits = RL_LAST_TOKEN) =>
        /\ Len(result) = 1
        /\ ~logits.present /\ ~offsets.present
        /\ Len(result[1]) = BatchSize
        /\ \A i \in 1..BatchSize :
             Unhooked(result[1][i]) = ExpectedLogits(h[(RO[i + 1] - 1) + 1])

C1_Witness ==
    /\ pc = "returned"
    /\ model.return_logits = RL_LAST_TOKEN
    /\ model.arch = "llama3"
    /\ RO = <<0, 2, 3>>
    /\ Len(result) = 1
    /\ Len(result[1]) = 2

\* C2: under VARIABLE with return_n_logits = k a returned logits tensor has
\* b*k rows and the returned offsets are [0, k, 2k, ..., b*k].
C2_VariableShape ==
    (pc = "returned" /\ model.return_logits = RL_VARIABLE) =>
        /\ Len(result) = 3
        /\ Len(result[2]) = BatchSize * ReturnN
        /\ result[3] = [j \in 1..(BatchSize + 1) |-> (j - 1) * ReturnN]

C2_Witness ==
    /\ pc = "returned"
    /\ model.return_logits = RL_VARIABLE
    /\ BatchSize = 2
    /\ ReturnN = 2
    /\ result[3] = <<0, 2, 4>>

\* C3: under VARIABLE with k >= 1 the k gather indices of sequence i are
\* row_offsets[i+1]-k .. row_offsets[i+1]-1 in ascending order and each lies
\* in [row_offsets[i], row_offsets[i+1]).
C3_IndicesWithinSequence ==
    (pc \in {"post", "returned"} /\ model.return_logits = RL_VARIABLE
        /\ ReturnN >= 1) =>
        /\ Len(last_indices) = BatchSize * ReturnN
        /\ \A i \in 1..BatchSize : \A j \in 1..ReturnN :
             LET idx == last_indices[(i - 1) * ReturnN + j]
             IN /\ idx = RO[i + 1] - ReturnN + (j - 1)
                /\ RO[i] <= idx
                /\ idx < RO[i + 1]

\* C4: under ALL the returned offsets are the input row_offsets and the
\* returned logits have one row per token of the batch, in input order.
C4_AllRows ==
    (pc = "returned" /\ model.return_logits = RL_ALL) =>
        /\ Len(result) = 3
        /\ result[3] = RO
        /\ Len(result[2]) = TotalTokens
        /\ \A r \in 1..TotalTokens :
             Unhooked(result[2][r]) = ExpectedLogits(h[r])

C4_Witness ==
    /\ pc = "returned"
    /\ model.return_logits = RL_ALL
    /\ RO = <<0, 1, 3>>
    /\ result[3] = <<0, 1, 3>>
    /\ Len(result[2]) = 3

\* C5: the returned tuple always starts with last_logits; logits and offsets
\* are present together or absent together: 3 elements under VARIABLE and
\* ALL, 1 element under LAST_TOKEN; the assertion of the 3-element return
\* never fails.
C5_TupleShape ==
    /\ logits.present = offsets.present
    /\ err # "AssertionError"
    /\ pc = "returned" =>
        /\ Len(result) \in {1, 3}
        /\ result[1] = last_logits
        /\ Len(result) = 3 <=> logits.present
        /\ Len(result) = 3 => result[2] = logits.val /\ result[3] = offsets.val
        /\ model.return_logits \in {RL_VARIABLE, RL_ALL} => Len(result) = 3
        /\ model.return_logits = RL_LAST_TOKEN => Len(result) = 1

C5_Witness ==
    /\ pc = "returned"
    /\ model.return_logits = RL_ALL
    /\ Len(result) = 3
    /\ logits.present /\ offsets.present

\* C6: a configured logits_postprocessor is applied exactly once to every
\* logits tensor of the returned tuple (last_logits, and logits when the
\* policy produced it) and never to offsets; when unset nothing is applied.
C6_HookOnEveryLogits ==
    pc = "returned" =>
        IF model.logits_postprocessor
        THEN /\ \A e \in 1..(IF Len(result) = 3 THEN 2 ELSE 1) :
                  \A r \in 1..Len(result[e]) :
                      Hooked(result[e][r]) /\ ~Hooked(result[e][r].args[1])
             /\ Len(post_calls) = (IF Len(result) = 3 THEN 2 ELSE 1)
             /\ Len(result) = 3 => result[3] = offsets.val
        ELSE /\ \A e \in 1..(IF Len(result) = 3 THEN 2 ELSE 1) :
                  \A r \in 1..Len(result[e]) : ~Hooked(result[e][r])
             /\ post_calls = <<>>

\* C7: the context_lengths handed to every layer is, for every sequence i,
\* (row_offsets[i+1] - row_offsets[i]) + cache_lengths[i], cache_lengths
\* being element [1] of the raw kv_cache_inputs; all layers of a call get
\* the same value.
C7_ContextLengths ==
    \A c \in 1..Len(layer_calls) :
        /\ Len(layer_calls[c].context_lengths) = BatchSize
        /\ \A i \in 1..BatchSize :
             layer_calls[c].context_lengths[i] =
                 (RO[i + 1] - RO[i]) + inputs.kv_cache_inputs[2][i]
        /\ layer_calls[c].context_lengths = layer_calls[1].context_lengths

C7_Witness ==
    /\ Len(layer_calls) = Len(model.layers)
    /\ Len(layer_calls) >= 2
    /\ RO = <<0, 2, 3>>
    /\ inputs.kv_cache_inputs[2] = <<0, 1>>
    /\ layer_calls[2].context_lengths = <<2, 2>>

\* C8: when the number of sequences of row_offsets differs from the length
\* of the cache-length vector the call fails at the rebind: no layer runs
\* and nothing is returned.
C8_RebindFatal ==
    (pc \notin {"idle", "prepare"}
        /\ BatchSize # Len(inputs.kv_cache_inputs[2])) =>
        /\ pc = "failed"
        /\ err = "rebind: shape mismatch"
        /\ layer_calls = <<>>
        /\ result = <<>>

C8_Witness ==
    /\ pc = "failed"
    /\ err = "rebind: shape mismatch"
    /\ BatchSize = 2
    /\ Len(inputs.kv_cache_inputs[2]) = 1
    /\ kv_built = 1

\* C9: an unrecognized cache strategy or return-logits policy makes
\* construction fail, so a forward call never runs with a strategy or a
\* policy outside the enumerations.
C9_UnrecognizedRejected ==
    /\ (config.cache_strategy \notin KnownStrategies
          \/ config.return_logits \notin ReturnLogits) => bpc # "built"
    /\ pc # "idle" =>
        /\ model.return_logits \in ReturnLogits
        /\ model.kv_collection_constructor \in
             {"FetchContinuousBatchingKVCacheCollection",
              "FetchPagedKVCacheCollection",
              "FetchPagedKVCacheCollectionFA3Fallback"}

\* C10: a Llama3 configuration with attention_bias and a quantized attention
\* variant is rejected during construction, before any layer is created; no
\* model object exists for it and no forward call is made.
C10_BiasWithQuantizationRejected ==
    (config.arch = "llama3" /\ config.attention_bias
        /\ config.model_quantization_encoding # NoEncoding) =>
        /\ bpc \in {"start", "failed"}
        /\ build.layers = <<>>
        /\ model = NoModel
        /\ pc = "idle"

C10_Witness ==
    /\ bpc = "failed"
    /\ config.attention_bias
    /\ config.model_quantization_encoding = Q4_K
    /\ berr = "AssertionError: Attention bias is not supported for GGUFQAttentionWithRope."
    /\ build.layers = <<>>

\* A sub-layer output scaled by the residual multiplier m: no scaling step
\* when m is 1.0.
Scaled(m, y) == IF m = 1 THEN y ELSE Mul(m, y)

\* h = x + m*attention(attention_norm(x)) and h + m*mlp(mlp_norm(h)) for row
\* r of the input of block blk.
PostAttention(blk, x, r) ==
    Add(x, Scaled(blk.residual_multiplier,
                  Term("self_attn", blk.layer_idx, r,
                       <<Term("input_layernorm", blk.layer_idx, 0, <<x>>)>>)))
BlockOutput(blk, x, r) ==
    Add(PostAttention(blk, x, r),
        Scaled(blk.residual_multiplier,
               Term("mlp", blk.layer_idx, 0,
                    <<Term("post_attention_layernorm", blk.layer_idx, 0,
                           <<PostAttention(blk, x, r)>>)>>)))

\* C11: a TransformerBlock returns h + m*mlp(mlp_norm(h)) with
\* h = x + m*attention(attention_norm(x)): the MLP norm is applied to h, the
\* scaling to the sub-layer outputs only, and there is no scaling step when
\* m is 1.0.  Stated of every step in which a layer of the stack runs.
C11_BlockResidual ==
    [][(pc = "layers" /\ model.arch = "llama3"
            /\ Len(layer_calls') = Len(layer_calls) + 1) =>
          /\ Len(h') = Len(h)
          /\ \A r \in 1..Len(h) :
               h'[r] = BlockOutput(model.layers[Len(layer_calls) + 1], h[r], r - 1)]_vars

C11_Witness ==
    /\ model.arch = "llama3"
    /\ Len(layer_calls) = 1
    /\ model.layers[1].residual_multiplier = 2
    /\ h[1].op = "add"
    /\ h[1].args[2].op = "mul"
    /\ h[1].args[2].args[1].op = "mlp"
    /\ h[1].args[1].args[2].op = "mul"

\* The hidden state after the first n layers of the stack, starting from
\* the scaled embedding.
RECURSIVE StackAfter(_)
StackAfter(n) ==
    IF n = 0 THEN ScaleEmbedding(model, InputHidden(model, inputs.tokens))
    ELSE ApplyLayer(model, model.layers[n], StackAfter(n - 1))

\* C12: in one call the cache collection is constructed exactly once, before
\* the first layer runs; the layers are invoked once each in increasing
\* index order, each on the output of the one before (layer 0 on the scaled
\* embedding), and all with that same cache collection.
C12_LayerOrder ==
    /\ kv_built <= 1
    /\ layer_calls # <<>> => kv_built = 1 /\ kv_collection.present
    /\ Len(layer_calls) <= Len(model.layers)
    /\ pc \in {"extract", "post", "returned"} =>
         Len(layer_calls) = Len(model.layers)
    /\ \A c \in 1..Len(layer_calls) :
         /\ layer_calls[c].layer_idx = c - 1
         /\ layer_calls[c].kv_collection = kv_collection.val
    /\ pc # "idle" => h = StackAfter(Len(layer_calls))

C12_Witness ==
    /\ pc = "extract"
    /\ Len(layer_calls) >= 2
    /\ layer_calls[1].layer_idx = 0
    /\ layer_calls[2].layer_idx = 1
    /\ kv_built = 1

\* C13: when logits is returned, last_logits row i is computed from the same
\* hidden row as logits row offsets[i+1]-1, under VARIABLE with k >= 1
\* (that row is i*k + k-1) and under ALL (that row is row_offsets[i+1]-1).
C13_LastLogitsLocated ==
    (pc = "returned" /\ Len(result) = 3
        /\ (model.return_logits = RL_VARIABLE => ReturnN >= 1)) =>
        /\ Len(result[3]) = BatchSize + 1
        /\ \A i \in 1..BatchSize :
             /\ result[3][i + 1] - 1 >= 0
             /\ result[3][i + 1] - 1 < Len(result[2])
             /\ model.return_logits = RL_VARIABLE =>
                  result[3][i + 1] - 1 = (i - 1) * ReturnN + ReturnN - 1
             /\ model.return_logits = RL_ALL =>
                  result[3][i + 1] - 1 = RO[i + 1] - 1
             /\ Unhooked(result[1][i]) = Unhooked(result[2][(result[3][i + 1] - 1) + 1])
             /\ Unhooked(result[1][i]) = ExpectedLogits(h[(RO[i + 1] - 1) + 1])

C13_Witness ==
    /\ pc = "returned"
    /\ model.return_logits = RL_VARIABLE
    /\ ReturnN = 2
    /\ RO = <<0, 2, 3>>
    /\ Len(result) = 3
    /\ Len(result[2]) = 4

\* C14: register_all_models has once-only semantics: no architecture of
\* the list is ever registered twice; whenever the flag is set, and
\* whenever no call is in progress after at least one call, every
\* architecture has been registered exactly once; and the flag is set once
\* a call has completed.
C14_RegisteredOnce ==
    /\ \A a \in ArchitectureSet : registered[a] <= 1
    /\ models_already_registered =>
         \A a \in ArchitectureSet : registered[a] = 1
    /\ (reg.calls >= 1 /\ \A c \in Callers : reg.at[c].pc = "idle") =>
         /\ models_already_registered
         /\ \A a \in ArchitectureSet : registered[a] = 1

\* The inverse frequencies of an instance as a function of dim, n_heads and
\* theta alone: theta^(-2i/n) for i in [0, n/2), n = dim // n_heads.
ExpectedInvFreqs(dim, n_heads, theta) ==
    [i \in 1..((dim \div n_heads) \div 2) |->
        [theta |-> theta, num |-> 2 * (i - 1), den |-> dim \div n_heads]]

\* C15: on one rotary embedding instance _compute_inv_freqs does not run at
\* construction, runs at the first freqs_cis_base call (unless the property
\* was read before it) and has run exactly once after any freqs_cis_base
\* calls; every call, whatever its position ids, uses that one value, which
\* is determined by dim, n_heads and theta.
C15_InvFreqsOnce ==
    /\ rotary.computed <= 1
    /\ rotary.computed = 0 <=> ~rotary.cache.present
    /\ (~rotary.called /\ ~rotary.read) => rotary.computed = 0
    /\ ~rotary.called => ~position_embeddings.present
    /\ rotary.read =>
         /\ rotary.computed = 1
         /\ rotary.cache =
              Some(ExpectedInvFreqs(rotary.dim, rotary.n_heads, rotary.theta))
    /\ rotary.called =>
         /\ rotary.computed = 1
         /\ rotary.used = ExpectedInvFreqs(rotary.dim, rotary.n_heads, rotary.theta)
         /\ rotary.cache = Some(rotary.used)
    /\ position_embeddings.present =>
         \A a \in 1..3 :
           \A b \in 1..Len(position_embeddings.val.cos[a]) :
             \A s \in 1..Len(position_embeddings.val.cos[a][b]) :
               LET row == position_embeddings.val.cos[a][b][s]
                   inv == ExpectedInvFreqs(rotary.dim, rotary.n_heads, rotary.theta)
               IN /\ Len(row) = 2 * Len(inv)
                  /\ \A i \in 1..Len(row) :
                       /\ row[i].of.inv = inv[((i - 1) % Len(inv)) + 1]
                       /\ position_embeddings.val.sin[a][b][s][i].of = row[i].of

C15_Witness ==
    /\ rotary.called
    /\ ~rotary.read
    /\ rotary.computed = 1
    /\ rotary.dim = 6
    /\ rotary.n_heads = 2
    /\ Len(rotary.used) = 1
    /\ position_embeddings.present
    /\ position_embeddings.val.cos[1][1][1][1].of.pos = MaxPosition
    /\ position_embeddings.val.cos[2][1][1][1].of.pos = 0

====
